---- MODULE Spec2Model ----
(***************************************************************************)
(* A model of the BizTalk to IBM ACE migration pipeline:                   *)
(*   - the Streamlit dashboard that sequences the five stages (main.py),   *)
(*   - the message-flow synthesizer's validation (messageflow_generator),  *)
(*   - the BizTalk/ACE mapper (biztalk_ace_mapper),                        *)
(*   - the ACE module generator (ace_module_creator),                      *)
(*   - the migration quality reviewer (migration_quality_reviewer).        *)
(* Each component has its own specification over the shared variables; a   *)
(* component that a specification does not exercise stays in its initial   *)
(* state.  Calls to the language model are nondeterministic choices over   *)
(* the outcomes the call can have: it raises, it returns text that cannot  *)
(* be parsed, or it returns parsed fields with arbitrary values.           *)
(***************************************************************************)
EXTENDS Integers, Sequences, FiniteSets, TLC

VARIABLES
    \* dashboard (main.py)
    progress,      \* st.session_state.pipeline_progress: stage -> entry
    buttons,       \* stages whose run button the latest script run rendered
    inputsValid,   \* stages whose own input widgets currently pass validation
    event,         \* the interaction the latest script run served
    \* message-flow synthesizer (messageflow_generator.py)
    mfPc,          \* position inside generate_messageflow
    mfResponse,    \* what the model call returned
    mfFile,        \* content of the written .msgflow file
    mfResult,      \* what generate_messageflow returned or raised
    \* mapper (biztalk_ace_mapper.py)
    llm_enabled,
    biztalk_components,
    ace_components,
    intelligent_mappings,
    sheet,         \* the Component Mapping rows written by the latest call
    \* module generator (ace_module_creator.py)
    biztalk_analysis,
    genPc,         \* position inside _generate_complete_esql_from_biztalk
    disk,          \* paths written below the output directory
    generated_files,
    unusable,      \* model calls that returned no content so far
    \* quality reviewer (migration_quality_reviewer.py)
    outputIsSource,        \* output_folder_name names the source folder
    account_requirements,  \* an account input was loaded
    srcFolder,             \* source folder: file name -> content
    outFolder,             \* output folder: file name -> content
    revPc,                 \* position inside run_quality_review
    ace_modules,           \* what _discover_ace_modules returned
    compliance_results,
    customization_results,
    written,               \* names written by the current run
    rerun,                 \* a run completed before the current one began
    prevNames,             \* names in the output folder when the run began
    review_report,         \* the JSON report written by the current run
    \* required-library extraction (ace_module_creator.py,
    \* migration_quality_reviewer.py)
    mapping_excel,         \* the workbook at mapping_excel_path
    creatorLibraries,      \* outcome of _extract_ace_libraries_from_mapping
    reviewerLibraries,     \* outcome of _get_required_libraries
    \* test-suite generator (postman_collection_generator.py)
    pmPc,                  \* position inside generate_postman_collections
    flow_analysis,         \* what _analyze_message_flows returned
    test_scenarios,        \* what _generate_test_scenarios returned
    collections,           \* the collections written, in order
    \* mapping scanner run (main.py run_program_1)
    scanInput,             \* the two root paths and whether a credential is set
    firstRun,              \* what the first run came to
    secondRun,             \* what the second run came to
    scanPc,                \* the runs made so far
    \* test-suite generator, results tracking
    generation_results,    \* what the run recorded as created
    final_report,          \* the automation readiness of the final report
    \* map analyzer (ace_module_creator.py _analyze_map)
    btm,                   \* what the .btm file holds
    map_info,              \* what _analyze_map returned
    \* module generator run (ace_module_creator.py enhance)
    enhance_input,         \* the BizTalk root and the mapping workbook
    enhance_pc,            \* position inside enhance
    enhance_result         \* how enhance ended

dashVars == <<progress, buttons, inputsValid, event>>

mfVars == <<mfPc, mfResponse, mfFile, mfResult>>

mapVars == <<llm_enabled, biztalk_components, ace_components,
             intelligent_mappings, sheet>>

genVars == <<biztalk_analysis, genPc, disk, generated_files, unusable>>

revVars == <<outputIsSource, account_requirements, srcFolder, outFolder,
             revPc, ace_modules, compliance_results, customization_results,
             written, rerun, prevNames, review_report>>

libVars == <<mapping_excel, creatorLibraries, reviewerLibraries>>

pmVars == <<pmPc, flow_analysis, test_scenarios, collections,
            generation_results, final_report>>

scanVars == <<scanInput, firstRun, secondRun, scanPc>>

btmVars == <<btm, map_info>>

enhVars == <<enhance_input, enhance_pc, enhance_result>>

vars == <<dashVars, mfVars, mapVars, genVars, revVars, libVars, pmVars,
         scanVars, btmVars, enhVars>>

\* ------------------------------------------------------------------------
\* Dashboard (main.py)
\* ------------------------------------------------------------------------

\* The five stages program_1 .. program_5.
NumStages == 5

Stages == 1..NumStages

\* Stages whose render function validates widget inputs before its button.
InputStages == {1, 2, 3}

\* An entry as main() and reset_pipeline() create it. "keys" holds the keys
\* an entry carries besides 'status' and 'output'.
PendingEntry == [status |-> "pending", output |-> "None", keys |-> {}]

InitialProgress == [n \in Stages |-> PendingEntry]

\* The statuses get_status_icon has an icon for.
KnownStatuses == {"pending", "running", "success", "error"}

\* pipeline_progress[program_n]['status'] = s
SetStatus(prog, n, s) == [prog EXCEPT ![n].status = s]

\* A variant of SetOutput that also stores o for the stages after n.
SetOutputFrom(prog, n, o) ==
    [m \in DOMAIN prog |->
        IF m >= n THEN [prog[m] EXCEPT !.output = o] ELSE prog[m]]

\* pipeline_progress[program_n]['output'] = o
SetOutput(prog, n, o) == [prog EXCEPT ![n].output = o]

\* pipeline_progress[program_n][k] = ...   for a key k other than the two
SetKey(prog, n, k) == [prog EXCEPT ![n].keys = @ \cup {k}]

\* The status check at the top of render_program_n_ui: stage 1 has none,
\* stages 2..4 look at the status of the stage before, stage 5 also wants
\* a non-empty output of stage 4.
Prerequisite(n, prog) ==
    CASE n = 1 -> TRUE
      [] n \in {2, 3, 4} -> prog[n - 1].status = "success"
      [] n = 5 -> prog[4].status = "success" /\ prog[4].output # "None"

\* render_program_n_ui reaches its run button.
ButtonRendered(n, prog, inputs) ==
    /\ Prerequisite(n, prog)
    /\ (n \in InputStages => n \in inputs)

\* A script run that serves no run button: every tab renders on prog.
RenderAll(prog, inputs) == {n \in Stages : ButtonRendered(n, prog, inputs)}

\* A variant of RenderAround in which every tab renders before the handler.
RenderBefore(k, before, after, inputs) == RenderAll(before, inputs)

\* The script run that serves the run button of stage k: the tabs render in
\* order, tabs 1..k on the progress before the handler (the handler runs
\* where the button is), tabs k+1..5 on the progress the handler left.
RenderAround(k, before, after, inputs) ==
    {n \in Stages : ButtonRendered(n, IF n <= k THEN before ELSE after, inputs)}

NoEvent == [stage |-> 0, outcome |-> "none"]

\* run_program_1: 'running', the mapper's calls, then 'success' and the
\* output; the display code after that can still raise ("late").
run_program_1(o) ==
    /\ 1 \in buttons
    /\ ButtonRendered(1, progress, inputsValid)
    /\ LET running == SetStatus(progress, 1, "running")
           done == SetOutput(SetStatus(running, 1, "success"), 1, "path")
           after == CASE o = "ok" -> done
                      [] o = "raise" -> SetStatus(running, 1, "error")
                      [] o = "late" -> SetStatus(done, 1, "error")
       IN /\ progress' = after
          /\ buttons' = RenderAround(1, progress, after, inputsValid)
    /\ event' = [stage |-> 1, outcome |-> o]
    /\ UNCHANGED <<inputsValid, mfVars, mapVars, genVars, revVars, libVars, pmVars,
                   scanVars, btmVars, enhVars>>

\* run_messageflow_generation: on result['success'] the whole entry is
\* replaced; a raise of the generator, a result without success, or a raise
\* of the display code ends in the except branch.
run_messageflow_generation(o) ==
    /\ 2 \in buttons
    /\ ButtonRendered(2, progress, inputsValid)
    /\ LET running == SetStatus(progress, 2, "running")
           done == [running EXCEPT ![2] = [status |-> "success",
                                           output |-> "path",
                                           keys |-> {"timestamp"}]]
           after == CASE o = "ok" -> done
                      [] o \in {"raise", "nosuccess"} ->
                             SetStatus(running, 2, "failed")
                      [] o = "late" -> SetStatus(done, 2, "failed")
       IN /\ progress' = after
          /\ buttons' = RenderAround(2, progress, after, inputsValid)
    /\ event' = [stage |-> 2, outcome |-> o]
    /\ UNCHANGED <<inputsValid, mfVars, mapVars, genVars, revVars, libVars, pmVars,
                   scanVars, btmVars, enhVars>>

\* run_program_3: reads the output of stage 2 and returns early when it is
\* empty or names nothing on disk ("invalid"); otherwise as stage 1.
run_program_3(o) ==
    /\ 3 \in buttons
    /\ ButtonRendered(3, progress, inputsValid)
    /\ (progress[2].output = "None" => o = "invalid")
    /\ LET running == SetStatus(progress, 3, "running")
           done == SetOutput(SetStatus(running, 3, "success"), 3, "path")
           after == CASE o = "ok" -> done
                      [] o = "invalid" -> running
                      [] o = "raise" -> SetStatus(running, 3, "error")
                      [] o = "late" -> SetStatus(done, 3, "error")
       IN /\ progress' = after
          /\ buttons' = RenderAround(3, progress, after, inputsValid)
    /\ event' = [stage |-> 3, outcome |-> o]
    /\ UNCHANGED <<inputsValid, mfVars, mapVars, genVars, revVars, libVars, pmVars,
                   scanVars, btmVars, enhVars>>

\* run_program_4: reads the outputs of stages 3 and 1 (Path(None) and
\* dirname(None) raise), returns early when the ACE root or the library
\* path is not on disk ("invalid"); the except branch also stores 'error'.
run_program_4(o) ==
    /\ 4 \in buttons
    /\ ButtonRendered(4, progress, inputsValid)
    /\ (progress[3].output = "None" \/ progress[1].output = "None"
            => o = "raise")
    /\ LET running == SetStatus(progress, 4, "running")
           done == SetOutput(SetStatus(running, 4, "success"), 4, "path")
           failed(p) == SetKey(SetStatus(p, 4, "error"), 4, "error")
           after == CASE o = "ok" -> done
                      [] o = "invalid" -> running
                      [] o = "raise" -> failed(running)
                      [] o = "late" -> failed(done)
       IN /\ progress' = after
          /\ buttons' = RenderAround(4, progress, after, inputsValid)
    /\ event' = [stage |-> 4, outcome |-> o]
    /\ UNCHANGED <<inputsValid, mfVars, mapVars, genVars, revVars, libVars, pmVars,
                   scanVars, btmVars, enhVars>>

\* run_postman_collection_generation.
run_postman_collection_generation(o) ==
    /\ 5 \in buttons
    /\ ButtonRendered(5, progress, inputsValid)
    /\ LET running == SetStatus(progress, 5, "running")
           done == SetOutput(SetStatus(running, 5, "success"), 5, "path")
           after == CASE o = "ok" -> done
                      [] o = "raise" -> SetStatus(running, 5, "error")
                      [] o = "late" -> SetStatus(done, 5, "error")
       IN /\ progress' = after
          /\ buttons' = RenderAround(5, progress, after, inputsValid)
    /\ event' = [stage |-> 5, outcome |-> o]
    /\ UNCHANGED <<inputsValid, mfVars, mapVars, genVars, revVars, libVars, pmVars,
                   scanVars, btmVars, enhVars>>

\* A reset that puts every status back and keeps the rest of each entry.
ResetStatuses ==
    /\ progress' = [n \in Stages |-> [progress[n] EXCEPT !.status = "pending"]]
    /\ buttons' = RenderAll(progress', inputsValid)
    /\ event' = [stage |-> 0, outcome |-> "reset"]
    /\ UNCHANGED <<inputsValid, mfVars, mapVars, genVars, revVars, libVars, pmVars,
                   scanVars, btmVars, enhVars>>

\* The tabs main() renders after the sidebar, in order; no other view is
\* rendered by a script run.
ViewsOfMain ==
    <<"render_program_1_ui", "render_program_2_ui", "render_program_3_ui",
      "render_program_4_ui", "render_program_5_ui">>

\* The sidebar's reset button: reset_pipeline(), then st.rerun().
reset_pipeline ==
    /\ progress' = InitialProgress
    /\ buttons' = RenderAll(InitialProgress, inputsValid)
    /\ event' = [stage |-> 0, outcome |-> "reset"]
    /\ UNCHANGED <<inputsValid, mfVars, mapVars, genVars, revVars, libVars, pmVars,
                   scanVars, btmVars, enhVars>>

\* The user edits an input widget of some tab: the script reruns and every
\* tab renders on the unchanged progress.
ChangeInputs ==
    /\ \E s \in SUBSET InputStages :
          /\ s # inputsValid
          /\ inputsValid' = s
          /\ buttons' = RenderAll(progress, s)
    /\ event' = NoEvent
    /\ UNCHANGED <<progress, mfVars, mapVars, genVars, revVars, libVars, pmVars,
                   scanVars, btmVars, enhVars>>

DashStart ==
    /\ progress = InitialProgress
    /\ inputsValid = {}
    /\ buttons = RenderAll(InitialProgress, {})
    /\ event = NoEvent

DashNext ==
    \/ \E o \in {"ok", "raise", "late"} : run_program_1(o)
    \/ \E o \in {"ok", "raise", "nosuccess", "late"} :
          run_messageflow_generation(o)
    \/ \E o \in {"ok", "invalid", "raise", "late"} : run_program_3(o)
    \/ \E o \in {"ok", "invalid", "raise", "late"} : run_program_4(o)
    \/ \E o \in {"ok", "raise", "late"} : run_postman_collection_generation(o)
    \/ reset_pipeline
    \/ ChangeInputs

\* ------------------------------------------------------------------------
\* Message-flow synthesizer (messageflow_generator.py)
\* ------------------------------------------------------------------------

\* The text of a response or of a file is a sequence of lexical pieces:
\*   "fence"   the opening code fence ```xml
\*   "ticks"   a closing code fence ```
\*   "decl"    an XML declaration <?xml ... ?>
\*   "open"    a start tag, "close" its end tag
\*   "po"      the literal <propertyOrganizer/>
\*   "sb"      the literal <stickyBoard/>
Pieces == {"fence", "ticks", "decl", "open", "close", "po", "sb"}

\* Longest model response considered, in pieces.
MaxPieces == 4

\* All sequences over S of length at most n.
SeqUpTo(S, n) == UNION {[1..k -> S] : k \in 0..n}

Responses == SeqUpTo(Pieces, MaxPieces)

\* xml_content.replace("```xml", "").replace("```", "")
RECURSIVE RemoveFences(_)
RemoveFences(t) ==
    IF t = <<>> THEN <<>>
    ELSE IF Head(t) \in {"fence", "ticks"} THEN RemoveFences(Tail(t))
         ELSE <<Head(t)>> \o RemoveFences(Tail(t))

\* The response processing of _generate_xml_with_biztalk: a response that
\* starts with the opening fence loses every fence, and a text that does not
\* start with an XML declaration gets one in front.
PostProcess(t) ==
    LET unfenced == IF t # <<>> /\ Head(t) = "fence"
                    THEN RemoveFences(t) ELSE t
    IN IF unfenced # <<>> /\ Head(unfenced) = "decl"
       THEN unfenced ELSE <<"decl">> \o unfenced

\* ET.fromstring on the pieces after the optional leading declaration:
\* depth is the number of open elements, root tells whether the document
\* element has been closed.  Fences are character data, legal only inside
\* an element; a declaration anywhere but in front is an error.
RECURSIVE ParseFrom(_, _, _)
ParseFrom(t, depth, root) ==
    IF t = <<>> THEN depth = 0 /\ root
    ELSE LET x == Head(t) IN
         CASE x = "decl" -> FALSE
           [] x \in {"fence", "ticks"} ->
                  depth > 0 /\ ParseFrom(Tail(t), depth, root)
           [] x = "open" ->
                  ~root /\ ParseFrom(Tail(t), depth + 1, FALSE)
           [] x = "close" ->
                  depth > 0 /\ ParseFrom(Tail(t), depth - 1, depth = 1)
           [] x \in {"po", "sb"} ->
                  IF depth > 0 THEN ParseFrom(Tail(t), depth, root)
                  ELSE ~root /\ ParseFrom(Tail(t), 0, TRUE)

WellFormed(t) ==
    ParseFrom(IF t # <<>> /\ Head(t) = "decl" THEN Tail(t) ELSE t, 0, FALSE)

\* element in xml_content
Contains(t, x) == \E i \in 1..Len(t) : t[i] = x

\* The loop of _validate_xml over required = [po, sb]: one "Missing" entry
\* for each literal the text does not contain, in that order.
\* (A variant that stops at the first literal that is missing.)
MissingErrorsFirst(t) ==
    IF ~Contains(t, "po") THEN <<"Missing: po">>
    ELSE IF ~Contains(t, "sb") THEN <<"Missing: sb">> ELSE <<>>

MissingErrors(t) ==
    (IF Contains(t, "po") THEN <<>> ELSE <<"Missing: po">>)
    \o (IF Contains(t, "sb") THEN <<>> ELSE <<"Missing: sb">>)

\* _validate_xml
ValidateXml(t) ==
    LET xml_valid == WellFormed(t)
        errors == (IF xml_valid THEN <<>> ELSE <<"XML Parse Error">>)
                  \o MissingErrors(t)
    IN [valid |-> xml_valid /\ Len(errors) = 0, errors |-> errors]

NoResult == [kind |-> "none", errors |-> <<>>]

\* The model call inside _generate_xml_with_biztalk returns a text or raises.
MfCallModel ==
    /\ mfPc = "idle"
    /\ \/ \E t \in Responses :
             /\ mfResponse' = [raised |-> FALSE, text |-> t]
             /\ mfPc' = "responded"
             /\ UNCHANGED mfResult
       \/ /\ mfResponse' = [raised |-> TRUE, text |-> <<>>]
          /\ mfPc' = "done"
          /\ mfResult' = [kind |-> "error",
                          errors |-> <<"XML generation failed">>]
    /\ UNCHANGED <<mfFile, dashVars, mapVars, genVars, revVars, libVars, pmVars,
                   scanVars, btmVars, enhVars>>

\* The rest of _generate_xml_with_biztalk: process the response, write it.
MfWriteFile ==
    /\ mfPc = "responded"
    /\ mfFile' = [exists |-> TRUE, text |-> PostProcess(mfResponse.text)]
    /\ mfPc' = "written"
    /\ UNCHANGED <<mfResponse, mfResult, dashVars, mapVars, genVars, revVars,
                   libVars, pmVars, scanVars, btmVars, enhVars>>

\* generate_messageflow after the file is written: validate, then return
\* the success result or raise the generation error carrying the errors.
MfValidate ==
    /\ mfPc = "written"
    /\ LET validation == ValidateXml(mfFile.text)
       IN mfResult' = IF validation.valid
                      THEN [kind |-> "success", errors |-> validation.errors]
                      ELSE [kind |-> "error", errors |-> validation.errors]
    /\ mfPc' = "done"
    /\ UNCHANGED <<mfResponse, mfFile, dashVars, mapVars, genVars, revVars, libVars,
            pmVars, scanVars, btmVars, enhVars>>

MfStart ==
    /\ mfPc = "idle"
    /\ mfResponse = [raised |-> FALSE, text |-> <<>>]
    /\ mfFile = [exists |-> FALSE, text |-> <<>>]
    /\ mfResult = NoResult

MfNext == MfCallModel \/ MfWriteFile \/ MfValidate

\* ------------------------------------------------------------------------
\* Mapper (biztalk_ace_mapper.py)
\* ------------------------------------------------------------------------

\* Scores and confidences are in hundredths: 0.6 is 60, 1.0 is 100.
OrchestrationScore == 60

MapScore == 70

SchemaScore == 50

NameScore == 30

\* A candidate is kept when its score is above 0.4.
MatchThreshold == 40

\* overall_confidence of a mapping without a match, the default of
\* result.get('confidence', 0.5), and the candidates kept and reported.
NoMatchConfidence == 20

DefaultLlmConfidence == 50

TopCandidates == 3

ReportedMatches == 2

\* The BizTalk files a scanned tree can hold, as scan_biztalk describes
\* them: the file stem and the type it derives from the extension.
BizUniverse ==
    { [name |-> "OrderProcess", type |-> "BizTalk Orchestration"],
      [name |-> "OrderMap", type |-> "BizTalk Map"],
      [name |-> "Order", type |-> "XML Schema"] }

\* priority_order of _discover_files_smart: .odx, .btm, .xsd
TypePriority(type) ==
    CASE type = "BizTalk Orchestration" -> 1
      [] type = "BizTalk Map" -> 2
      [] type = "XML Schema" -> 3

\* Most components one scanned tree holds.
MaxComponents == 2

\* The libraries an ACE tree can hold, in rglob order, as
\* _analyze_library_hybrid describes them: the folder name and the
\* esql_patterns its ESQL files show (of the two the matching rules read).
LibUniverse ==
    << [name |-> "Common", type |-> "ACE Library",
        technical_patterns |-> {"message", "transformation"}],
       [name |-> "Order_Lib", type |-> "ACE Library",
        technical_patterns |-> {"transformation"}],
       [name |-> "Plain_Lib", type |-> "ACE Library",
        technical_patterns |-> {}] >>

\* word in type.lower()
TypeHasWord(type, word) ==
    \/ word = "orchestration" /\ type = "BizTalk Orchestration"
    \/ word = "map" /\ type = "BizTalk Map"
    \/ word = "schema" /\ type = "XML Schema"

\* any(word in ace_name for word in biz_name.split() if len(word) > 3):
\* of the names above only "order" occurs in a library name, "order_lib".
NameSimilar(biz_name, ace_name) == biz_name = "Order" /\ ace_name = "Order_Lib"

\* The components of a set, in the order the scan lists them.
RECURSIVE ScanOrder(_)
ScanOrder(S) ==
    IF S = {} THEN <<>>
    ELSE LET c == CHOOSE x \in S :
                      \A y \in S : TypePriority(x.type) <= TypePriority(y.type)
         IN <<c>> \o ScanOrder(S \ {c})

\* The trees a BizTalk scan can find.
BizTrees == {S \in SUBSET BizUniverse : Cardinality(S) <= MaxComponents}

\* The sublist of list at the positions in keep.
RECURSIVE SubList(_, _, _)
SubList(list, keep, i) ==
    IF i > Len(list) THEN <<>>
    ELSE (IF i \in keep THEN <<list[i]>> ELSE <<>>)
         \o SubList(list, keep, i + 1)

\* The library lists an ACE scan can produce.
AceTrees == {SubList(LibUniverse, keep, 1) :
                keep \in SUBSET (1..Len(LibUniverse))}

Names(list) == {list[i].name : i \in 1..Len(list)}

\* The score loop body of _find_matches_by_rules.
RuleScore(biz, ace) ==
    (IF TypeHasWord(biz.type, "orchestration")
        /\ "message" \in ace.technical_patterns
     THEN OrchestrationScore ELSE 0)
    + (IF TypeHasWord(biz.type, "map")
          /\ "transformation" \in ace.technical_patterns
       THEN MapScore ELSE 0)
    + (IF TypeHasWord(biz.type, "schema") /\ ace.type = "ACE Library"
       THEN SchemaScore ELSE 0)
    + (IF NameSimilar(biz.name, ace.name) THEN NameScore ELSE 0)

\* matches.sort(key=score, reverse=True): stable, highest score first.
RECURSIVE SortByScore(_)
SortByScore(ms) ==
    IF ms = <<>> THEN <<>>
    ELSE LET rest == SortByScore(SubSeq(ms, 1, Len(ms) - 1))
             m == ms[Len(ms)]
             k == Cardinality({i \in 1..Len(rest) : rest[i].score >= m.score})
         IN SubSeq(rest, 1, k) \o <<m>> \o SubSeq(rest, k + 1, Len(rest))

\* list[:n]
Take(list, n) == SubSeq(list, 1, IF Len(list) < n THEN Len(list) ELSE n)

RECURSIVE Candidates(_, _)
Candidates(biz, libs) ==
    IF libs = <<>> THEN <<>>
    ELSE LET score == RuleScore(biz, Head(libs))
         IN (IF score > MatchThreshold
             THEN <<[ace_component |-> Head(libs), score |-> score]>>
             ELSE <<>>) \o Candidates(biz, Tail(libs))

_find_matches_by_rules(biz, libs) ==
    Take(SortByScore(Candidates(biz, libs)), TopCandidates)

_create_rule_based_mapping(biz, matches) ==
    IF matches = <<>>
    THEN [biztalk_component |-> biz.name,
          biztalk_component_type |-> biz.type,
          ace_matches |-> <<>>,
          overall_confidence |-> NoMatchConfidence,
          analysis_method |-> "rules"]
    ELSE LET top == Take(matches, ReportedMatches)
         IN [biztalk_component |-> biz.name,
             biztalk_component_type |-> biz.type,
             ace_matches |->
                 [i \in 1..Len(top) |->
                     [ace_component |-> top[i].ace_component.name,
                      match_confidence |-> top[i].score]],
             overall_confidence |-> matches[1].score,
             analysis_method |-> "rules"]

\* What the refinement call can come to: it raises, its text holds no JSON
\* object, or it holds one, with any best_match and any confidence (a key
\* that is absent reads as 'Unknown' and 0.5).
LlmBestMatches == {"Common", "Order_Lib", "Plain_Lib", "Invented_Lib"}

LlmConfidences == {85, 8500}

NoJson(kind) ==
    [kind |-> kind, best_match |-> "Unknown",
     confidence |-> DefaultLlmConfidence]

LlmOutcomes ==
    {NoJson("raise"), NoJson("nojson"), NoJson("json")}
    \cup [kind : {"json"}, best_match : LlmBestMatches,
          confidence : LlmConfidences]

_refine_mapping_with_llm(biz, matches, o) ==
    IF o.kind = "json"
    THEN [biztalk_component |-> biz.name,
          biztalk_component_type |-> biz.type,
          ace_matches |-> <<[ace_component |-> o.best_match,
                             match_confidence |-> o.confidence]>>,
          overall_confidence |-> o.confidence,
          analysis_method |-> "hybrid"]
    ELSE _create_rule_based_mapping(biz, matches)

\* The call made for every component with more than one candidate.
RefinedWithoutCredential(biz, libs, enabled) ==
    Len(_find_matches_by_rules(biz, libs)) > 1

\* The condition under which _create_smart_mapping_fast calls the model.
Refined(biz, libs, enabled) ==
    enabled /\ Len(_find_matches_by_rules(biz, libs)) > 1

_create_smart_mapping_fast(biz, libs, enabled, o) ==
    LET best_matches == _find_matches_by_rules(biz, libs)
    IN IF Refined(biz, libs, enabled)
       THEN _refine_mapping_with_llm(biz, best_matches, o)
       ELSE _create_rule_based_mapping(biz, best_matches)

\* The rows generate_excel builds for the Component Mapping sheet.
RowsOf(mapping) ==
    IF mapping.ace_matches # <<>>
    THEN [i \in 1..Len(mapping.ace_matches) |->
             [biztalk_component |-> mapping.biztalk_component,
              component_type |-> mapping.biztalk_component_type,
              required_ace_library |-> mapping.ace_matches[i].ace_component,
              ace_type |-> "ACE Library",
              mapping_confidence |-> mapping.ace_matches[i].match_confidence,
              analysis_method |-> mapping.analysis_method]]
    ELSE <<[biztalk_component |-> mapping.biztalk_component,
            component_type |-> mapping.biztalk_component_type,
            required_ace_library |-> "Manual_Review_Required",
            ace_type |-> "Unknown",
            mapping_confidence |-> 0,
            analysis_method |-> mapping.analysis_method]>>

RECURSIVE ComponentMappingData(_)
ComponentMappingData(mappings) ==
    IF mappings = <<>> THEN <<>>
    ELSE RowsOf(Head(mappings)) \o ComponentMappingData(Tail(mappings))

NoComponentsRow ==
    [biztalk_component |-> "No_Components_Analyzed",
     component_type |-> "N/A",
     required_ace_library |-> "Manual_Review_Required",
     ace_type |-> "N/A",
     mapping_confidence |-> 0,
     analysis_method |-> "N/A"]

\* scan_biztalk: a path that does not exist raises before the list is
\* cleared; otherwise the list is rebuilt from what the tree holds.
scan_biztalk ==
    /\ \/ \E tree \in BizTrees : biztalk_components' = ScanOrder(tree)
       \/ UNCHANGED biztalk_components
    /\ sheet' = <<>>
    /\ UNCHANGED <<llm_enabled, ace_components, intelligent_mappings,
                   dashVars, mfVars, genVars, revVars, libVars, pmVars,
                   scanVars, btmVars, enhVars>>

\* scan_ace_libraries: a path that does not exist is logged and the call
\* returns with the list as it was; otherwise the list is rebuilt.
scan_ace_libraries ==
    /\ \/ \E tree \in AceTrees : ace_components' = tree
       \/ UNCHANGED ace_components
    /\ sheet' = <<>>
    /\ UNCHANGED <<llm_enabled, biztalk_components, intelligent_mappings,
                   dashVars, mfVars, genVars, revVars, libVars, pmVars,
                   scanVars, btmVars, enhVars>>

\* create_mappings: returns at once when either list is empty, otherwise
\* rebuilds intelligent_mappings, one mapping per component; o gives the
\* outcome of the model call for each component that gets one.
create_mappings ==
    /\ IF biztalk_components = <<>> \/ ace_components = <<>>
       THEN UNCHANGED intelligent_mappings
       ELSE LET refined == {i \in 1..Len(biztalk_components) :
                              Refined(biztalk_components[i], ace_components,
                                      llm_enabled)}
            IN \E o \in [refined -> LlmOutcomes] :
                  intelligent_mappings' =
                      [i \in 1..Len(biztalk_components) |->
                          _create_smart_mapping_fast(biztalk_components[i],
                              ace_components, llm_enabled,
                              IF i \in refined THEN o[i]
                              ELSE NoJson("raise"))]
    /\ sheet' = <<>>
    /\ UNCHANGED <<llm_enabled, biztalk_components, ace_components,
                   dashVars, mfVars, genVars, revVars, libVars, pmVars,
                   scanVars, btmVars, enhVars>>

\* generate_excel
generate_excel ==
    /\ sheet' = IF ComponentMappingData(intelligent_mappings) = <<>>
                THEN <<NoComponentsRow>>
                ELSE ComponentMappingData(intelligent_mappings)
    /\ UNCHANGED <<llm_enabled, biztalk_components, ace_components,
                   intelligent_mappings, dashVars, mfVars, genVars, revVars,
                   libVars, pmVars, scanVars, btmVars, enhVars>>

MapStart ==
    /\ llm_enabled \in BOOLEAN
    /\ biztalk_components = <<>>
    /\ ace_components = <<>>
    /\ intelligent_mappings = <<>>
    /\ sheet = <<>>

MapNext ==
    scan_biztalk \/ scan_ace_libraries \/ create_mappings \/ generate_excel

\* ------------------------------------------------------------------------
\* Module generator (ace_module_creator.py)
\* ------------------------------------------------------------------------

\* A generated name is <<stem, suffix>>: f"{stem}{suffix}".
ProjectName == "P"

\* What analyze_biztalk_components can find in a BizTalk tree.  An
\* orchestration is [requires_database, requires_transformation], a map is
\* [name, complexity], an XSLT file is [name, transformation_type] (two files
\* in different folders can share a stem), a C# file is
\* [name, business_logic_detected].
ProcessChoices ==
    {<<>>} \cup {<<[requires_database |-> d, requires_transformation |-> t]>> :
                     d \in BOOLEAN, t \in BOOLEAN}

MapChoices ==
    {<<>>} \cup {<<[name |-> "OrderMap", complexity |-> c]>> :
                     c \in {"simple", "medium"}}

XslUniverse ==
    { [name |-> "ToCanonical", transformation_type |-> "standard"],
      [name |-> "Lookup", transformation_type |-> "enrichment"] }

\* Most XSLT files in the BizTalk tree.
MaxXslTransforms == 2

CustomChoices ==
    {<<>>, <<[name |-> "Helper", business_logic_detected |-> TRUE]>>}

\* Model calls of one run that may return no content.
MaxUnusable == 1

Requirement(type, name, priority) ==
    [type |-> type, name |-> name, priority |-> priority]

\* The requirements of list with the given priority, in order.
WithPriority(list, p) == SelectSeq(list, LAMBDA r : r.priority = p)

\* sorted(list, key=priority): stable; priorities are 1, 2 and 3.
SortedByPriority(list) ==
    WithPriority(list, 1) \o WithPriority(list, 2) \o WithPriority(list, 3)

\* The seen_names loop: the first requirement of each name.
RECURSIVE UniqueByName(_, _)
UniqueByName(list, seen) ==
    IF list = <<>> THEN <<>>
    ELSE IF Head(list).name \in seen THEN UniqueByName(Tail(list), seen)
         ELSE <<Head(list)>>
              \o UniqueByName(Tail(list), seen \cup {Head(list).name})

\* The lists of a list of lists, concatenated.
RECURSIVE Flatten(_)
Flatten(lists) ==
    IF lists = <<>> THEN <<>> ELSE Head(lists) \o Flatten(Tail(lists))

_determine_esql_requirements(processes, maps, custom) ==
    LET core == << Requirement("main_processing", <<ProjectName, "_Main">>, 1),
                   Requirement("validation",
                               <<ProjectName, "_Validation">>, 1),
                   Requirement("error_handling",
                               <<ProjectName, "_ErrorHandling">>, 1) >>
        ofProcess(pr) ==
            (IF pr.requires_database
             THEN <<Requirement("database_operations",
                                <<ProjectName, "_DatabaseOps">>, 2)>>
             ELSE <<>>)
            \o (IF pr.requires_transformation
                THEN <<Requirement("transformation",
                                   <<ProjectName, "_Transformation">>, 2)>>
                ELSE <<>>)
        ofMap(m) == <<Requirement("map_conversion", <<m.name, "_Transform">>, 2)>>
        ofCustom(c) ==
            IF c.business_logic_detected
            THEN <<Requirement("business_logic",
                               <<c.name, "_BusinessLogic">>, 3)>>
            ELSE <<>>
    IN UniqueByName(SortedByPriority(
           core
           \o Flatten([i \in 1..Len(processes) |-> ofProcess(processes[i])])
           \o Flatten([i \in 1..Len(maps) |-> ofMap(maps[i])])
           \o Flatten([i \in 1..Len(custom) |-> ofCustom(custom[i])])), {})

_determine_enrichment_requirements(processes, xsls) ==
    LET standard ==
            << Requirement("company_code_lookup",
                           <<ProjectName, "_CompanyCodeLookup">>, 2),
               Requirement("shipment_enrichment",
                           <<ProjectName, "_ShipmentEnrichment">>, 2),
               Requirement("document_validation",
                           <<ProjectName, "_DocumentValidation">>, 2),
               Requirement("customs_brokerage",
                           <<ProjectName, "_CustomsBrokerage">>, 3),
               Requirement("eadapter_recipient",
                           <<ProjectName, "_EAdapterRecipient">>, 2) >>
        ofXsl(x) ==
            IF x.transformation_type = "enrichment"
            THEN <<Requirement("xsl_data_enrichment",
                               <<x.name, "_DataEnrichment">>, 2)>>
            ELSE <<>>
    IN UniqueByName(SortedByPriority(
           (IF \E i \in 1..Len(processes) : processes[i].requires_database
            THEN standard ELSE <<>>)
           \o Flatten([i \in 1..Len(xsls) |-> ofXsl(xsls[i])])), {})

\* Step 4 of _generate_complete_esql_from_biztalk: the maps that get an
\* XSLT of their own.
MapXslRequirements(maps, xsls) ==
    IF maps # <<>> /\ xsls = <<>>
    THEN SelectSeq(maps, LAMBDA m : m.complexity \in {"medium", "complex"})
    ELSE <<>>

Analysis(processes, maps, xsls, custom) ==
    [business_processes |-> processes,
     data_transformations |-> maps,
     xsl_transformations |-> xsls,
     custom_components |-> custom,
     esql_requirements |-> _determine_esql_requirements(processes, maps, custom),
     enrichment_requirements |->
         _determine_enrichment_requirements(processes, xsls)]

\* The four loops of _generate_complete_esql_from_biztalk, and what each
\* loops over.
Phases == <<"esql", "enrichment", "xsl", "mapxsl">>

Work(analysis, phase) ==
    CASE phase = "esql" -> analysis.esql_requirements
      [] phase = "enrichment" -> analysis.enrichment_requirements
      [] phase = "xsl" -> analysis.xsl_transformations
      [] phase = "mapxsl" -> MapXslRequirements(analysis.data_transformations,
                                                analysis.xsl_transformations)

\* The position of the next item to generate at or after item i of loop k.
RECURSIVE Position(_, _, _)
Position(analysis, k, i) ==
    IF k > Len(Phases) THEN [phase |-> "done", i |-> 0]
    ELSE IF i <= Len(Work(analysis, Phases[k]))
         THEN [phase |-> Phases[k], i |-> i]
         ELSE Position(analysis, k + 1, 1)

PhaseIndex(phase) == CHOOSE k \in 1..Len(Phases) : Phases[k] = phase

\* The target path of an item.
TargetPath(phase, item) ==
    CASE phase = "esql" ->
             <<IF item.type = "database_operations"
               THEN "procedures" ELSE "modules", item.name, ".esql">>
      [] phase = "enrichment" -> <<"enrichment", item.name, ".esql">>
      [] phase = "xsl" -> <<"xsl", <<item.name, "_ACE">>, ".xsl">>
      [] phase = "mapxsl" -> <<"xsl", <<item.name, "_Transform">>, ".xsl">>

\* What a generator function returns: the content of the model's message
\* ("content", or "empty" when the message has none), or the fallback body
\* when the call raised.
ReturnedContent(o) ==
    CASE o = "content" -> "model"
      [] o = "empty" -> ""
      [] o = "raise" -> "fallback"

\* One iteration of a loop: generate, and when the content is truthy, save
\* it and list the path.
Generate(phase, o) ==
    /\ genPc.phase = phase
    /\ o = "empty" => unusable < MaxUnusable
    /\ LET item == Work(biztalk_analysis, phase)[genPc.i]
           content == ReturnedContent(o)
       IN IF content # ""
          THEN /\ disk' = disk \cup {TargetPath(phase, item)}
               /\ generated_files' =
                      Append(generated_files, TargetPath(phase, item))
               /\ UNCHANGED unusable
          ELSE /\ unusable' = unusable + 1
               /\ UNCHANGED <<disk, generated_files>>
    /\ genPc' = Position(biztalk_analysis, PhaseIndex(phase), genPc.i + 1)
    /\ UNCHANGED <<biztalk_analysis, dashVars, mfVars, mapVars, revVars, libVars,
            pmVars, scanVars, btmVars, enhVars>>

GenerateEsqlModule == \E o \in {"content", "empty", "raise"} : Generate("esql", o)

GenerateEnrichment ==
    \E o \in {"content", "empty", "raise"} : Generate("enrichment", o)

GenerateXsl == \E o \in {"content", "empty", "raise"} : Generate("xsl", o)

GenerateXslFromMap ==
    \E o \in {"content", "empty", "raise"} : Generate("mapxsl", o)

GenStart ==
    /\ \E processes \in ProcessChoices, maps \in MapChoices,
          xsls \in SeqUpTo(XslUniverse, MaxXslTransforms),
          custom \in CustomChoices :
          biztalk_analysis = Analysis(processes, maps, xsls, custom)
    /\ genPc = Position(biztalk_analysis, 1, 1)
    /\ disk = {}
    /\ generated_files = <<>>
    /\ unusable = 0

GenNext ==
    GenerateEsqlModule \/ GenerateEnrichment \/ GenerateXsl
    \/ GenerateXslFromMap

\* ------------------------------------------------------------------------
\* Quality reviewer (migration_quality_reviewer.py)
\* ------------------------------------------------------------------------

\* A file is known by its name, <<category, number>>; the category stands
\* for the extension _discover_ace_modules looks at.  A folder is a function
\* from the names it holds to their content.
MaxEsql == 1

MaxXsl == 2

EsqlName(i) == <<"esql", i>>

XslName(i) == <<"xsl", i>>

\* ConsolidatedTransformation.xsl
ConsolidatedName == <<"xsl", 0>>

\* .project, a .msgflow file and a file of no reviewed category
ProjectFile == <<"project", 1>>

MsgflowFile == <<"msgflow", 1>>

OtherFile == <<"other", 1>>

\* enrichment/before_enrichment.json and enrichment/after_enrichment.json
EnrichmentFiles == {<<"other", 2>>, <<"other", 3>>}

EmptyFolder == [f \in {} |-> ""]

\* Writing the files of values (name -> content) into folder: a file that
\* is there already is overwritten.
Put(folder, values) ==
    [f \in DOMAIN folder \cup DOMAIN values |->
        IF f \in DOMAIN values THEN values[f] ELSE folder[f]]

\* The source folders considered: nE ESQL files, nX XSLT files, one project
\* file, one message flow and one other file.
SourceFolder(nE, nX) ==
    [f \in {EsqlName(i) : i \in 1..nE} \cup {XslName(i) : i \in 1..nX}
            \cup {ProjectFile, MsgflowFile, OtherFile} |-> "original"]

OfCategory(folder, category) == {f \in DOMAIN folder : f[1] = category}

_discover_ace_modules(folder) ==
    [esql_files |-> OfCategory(folder, "esql"),
     xsl_files |-> OfCategory(folder, "xsl"),
     project_files |-> OfCategory(folder, "project"),
     msgflow_files |-> OfCategory(folder, "msgflow"),
     other_files |-> OfCategory(folder, "other")]

NoModules == _discover_ace_modules(EmptyFolder)

\* Scores _review_esql_compliance gives when the response is no JSON and
\* when the call or the file read raises.
ParseFailureScore == 8

FailedReviewScore == 0

\* What the compliance call for an ESQL file can come to: JSON, returned as
\* it is (any score, a cleaned body or none), text that is no JSON, a raise.
EsqlOutcomes ==
    { [kind |-> "json", score |-> 7, cleaned |-> "cleaned"],
      [kind |-> "json", score |-> 11, cleaned |-> ""],
      [kind |-> "nojson", score |-> 0, cleaned |-> ""],
      [kind |-> "raise", score |-> 0, cleaned |-> ""] }

_review_esql_compliance(content, o) ==
    CASE o.kind = "json" ->
             [compliance_score |-> o.score, cleaned_code |-> o.cleaned]
      [] o.kind = "nojson" ->
             [compliance_score |-> ParseFailureScore, cleaned_code |-> content]
      [] o.kind = "raise" ->
             [compliance_score |-> FailedReviewScore, cleaned_code |-> ""]

\* _consolidate_xsl_files: JSON with a consolidated body, JSON without one,
\* or a failure, which returns consolidation_needed False and the error.
ConsolidationOutcomes == {"body", "nobody", "failed"}

_consolidate_xsl_files(o) ==
    [consolidated_xsl |-> IF o = "body" THEN "consolidated" ELSE "",
     error |-> o = "failed"]

\* xsl_consolidation as _review_ace_standards_compliance initialises it.
NoConsolidation == [consolidated_xsl |-> "", error |-> FALSE]

\* _review_project_compliance: an updated content or none.
_review_project_compliance(o) == [updated_project_content |-> o]

NoCompliance ==
    [esql_reviews |-> EmptyFolder, xsl_consolidation |-> NoConsolidation,
     project_updates |-> EmptyFolder]

NoCustomization == [customized_modules |-> EmptyFolder]

\* _update_project_name applied to a project content.
Synced(content) ==
    IF content \in {"original", "original_synced"}
    THEN "original_synced" ELSE "updated_synced"

\* A variant of Recreated that leaves the folder as it is.
Retained(folder) == folder

\* shutil.rmtree(final_output_path) and mkdir
Recreated(folder) == EmptyFolder

\* The writes and copies of _generate_enhanced_modules, in their order, on
\* the output folder as it starts.  A copy reads the source folder; when the
\* output folder is the source folder (intact is false) the file to copy is
\* gone or is the target itself, and the copy fails and is logged.
Publish(start, src, modules, compliance, customization, intact) ==
    LET reviews == compliance.esql_reviews
        custom == customization.customized_modules
        cleaned == {f \in DOMAIN reviews : reviews[f].cleaned_code # ""}
        customized == {f \in DOMAIN custom : custom[f].customized_code # ""}
        enhanced == cleaned \cup customized
        copies(names) == IF intact THEN names ELSE {}
        s1 == Put(start, [f \in cleaned |-> reviews[f].cleaned_code])
        s2 == Put(s1, [f \in customized |-> custom[f].customized_code])
        s3 == Put(s2, [f \in copies(modules.esql_files \ enhanced) |-> src[f]])
        s4 == IF compliance.xsl_consolidation.consolidated_xsl # ""
              THEN Put(s3, [f \in {ConsolidatedName} |->
                               compliance.xsl_consolidation.consolidated_xsl])
              ELSE Put(s3, [f \in copies(modules.xsl_files) |-> src[f]])
        updates == compliance.project_updates
        updated == {f \in DOMAIN updates :
                      updates[f].updated_project_content # ""}
        s5 == Put(s4, [f \in updated |->
                          Synced(updates[f].updated_project_content)])
        s6 == Put(s5, [f \in copies(modules.project_files \ updated) |->
                          Synced(src[f])])
        s7 == Put(s6, [f \in copies(modules.msgflow_files \ DOMAIN s6) |->
                          src[f]])
    IN Put(s7, [f \in EnrichmentFiles |-> "json"])

\* review_results as __init__ creates it; no method assigns to it or to
\* one of its entries afterwards.
review_results ==
    [ace_compliance_review |-> EmptyFolder,
     account_customizations |-> EmptyFolder,
     module_modifications |-> EmptyFolder]

NoReport == [written |-> FALSE, content |-> review_results]

\* _generate_review_report: json.dump(self.review_results)
_generate_review_report == [written |-> TRUE, content |-> review_results]

\* The folder the run publishes into.
OutputFolder == IF outputIsSource THEN srcFolder ELSE outFolder

\* Step 1 of run_quality_review, for a new reviewer object.
DiscoverModules ==
    /\ revPc \in {"idle", "done"}
    /\ ace_modules' = _discover_ace_modules(srcFolder)
    /\ compliance_results' = NoCompliance
    /\ customization_results' = NoCustomization
    /\ written' = {}
    /\ rerun' = (revPc = "done")
    /\ prevNames' = DOMAIN OutputFolder
    /\ review_report' = NoReport
    /\ revPc' = "review"
    /\ UNCHANGED <<outputIsSource, account_requirements, srcFolder, outFolder,
                   dashVars, mfVars, mapVars, genVars, libVars, pmVars,
                   scanVars, btmVars, enhVars>>

\* Step 2, _review_ace_standards_compliance: one call per ESQL file, one
\* consolidation call when there is more than one XSLT file, one call per
\* project file.
ReviewCompliance ==
    /\ revPc = "review"
    /\ \E eo \in [ace_modules.esql_files -> EsqlOutcomes],
          co \in IF Cardinality(ace_modules.xsl_files) > 1
                 THEN ConsolidationOutcomes ELSE {"none"},
          po \in [ace_modules.project_files -> {"updated", ""}] :
          compliance_results' =
              [esql_reviews |->
                   [f \in ace_modules.esql_files |->
                       _review_esql_compliance(srcFolder[f], eo[f])],
               xsl_consolidation |->
                   IF co = "none" THEN NoConsolidation
                   ELSE _consolidate_xsl_files(co),
               project_updates |->
                   [f \in ace_modules.project_files |->
                       _review_project_compliance(po[f])]]
    /\ revPc' = "customize"
    /\ UNCHANGED <<outputIsSource, account_requirements, srcFolder, outFolder,
                   ace_modules, customization_results, written, rerun,
                   prevNames, review_report, dashVars, mfVars, mapVars, genVars, libVars,
                   pmVars, scanVars, btmVars, enhVars>>

\* Step 3, _apply_account_specific_customization: nothing without account
\* requirements, otherwise one call per ESQL and per XSLT file, each giving
\* a customized body or none.
ApplyCustomization ==
    /\ revPc = "customize"
    /\ IF account_requirements
       THEN \E body \in [ace_modules.esql_files \cup ace_modules.xsl_files
                            -> {"customized", ""}] :
               customization_results' =
                   [customized_modules |->
                       [f \in DOMAIN body |-> [customized_code |-> body[f]]]]
       ELSE customization_results' = NoCustomization
    /\ revPc' = "generate"
    /\ UNCHANGED <<outputIsSource, account_requirements, srcFolder, outFolder,
                   ace_modules, compliance_results, written, rerun, prevNames,
                   review_report, dashVars, mfVars, mapVars, genVars, libVars, pmVars,
                   scanVars, btmVars, enhVars>>

\* Steps 4 and 5, _generate_enhanced_modules and _generate_review_report.
GenerateEnhancedModules ==
    /\ revPc = "generate"
    /\ LET published ==
               Publish(Recreated(OutputFolder), srcFolder, ace_modules,
                       compliance_results, customization_results,
                       ~outputIsSource)
       IN /\ outFolder' = published
          /\ srcFolder' = IF outputIsSource THEN published ELSE srcFolder
    /\ written' = DOMAIN Publish(EmptyFolder, srcFolder, ace_modules,
                                 compliance_results, customization_results,
                                 ~outputIsSource)
    /\ review_report' = _generate_review_report
    /\ revPc' = "done"
    /\ UNCHANGED <<outputIsSource, account_requirements, ace_modules,
                   compliance_results, customization_results, rerun,
                   prevNames, dashVars, mfVars, mapVars, genVars, libVars,
                   pmVars, scanVars, btmVars, enhVars>>

RevStart ==
    /\ outputIsSource \in BOOLEAN
    /\ account_requirements \in BOOLEAN
    /\ \E nE \in 0..MaxEsql, nX \in 0..MaxXsl :
          srcFolder = SourceFolder(nE, nX)
    /\ outFolder = IF outputIsSource THEN srcFolder ELSE EmptyFolder
    /\ revPc = "idle"
    /\ ace_modules = NoModules
    /\ compliance_results = NoCompliance
    /\ customization_results = NoCustomization
    /\ written = {}
    /\ rerun = FALSE
    /\ prevNames = {}
    /\ review_report = NoReport

RevNext ==
    DiscoverModules \/ ReviewCompliance \/ ApplyCustomization
    \/ GenerateEnhancedModules

\* ------------------------------------------------------------------------
\* Required-library extraction (ace_module_creator.py,
\* migration_quality_reviewer.py)
\* ------------------------------------------------------------------------

\* A cell of the required_ace_library column: a string, given by its text
\* without surrounding blanks (core) and whether blanks surround it (padded),
\* an empty cell (NaN) or a number.
Str(core, padded) == [kind |-> "str", core |-> core, padded |-> padded]

CellUniverse ==
    { Str("Common_Lib", FALSE), Str("Common_Lib", TRUE),
      Str("Order_Lib", FALSE), Str("None of the above_Lib", FALSE),
      Str("Manual_Review_Required", FALSE),
      [kind |-> "nan"], [kind |-> "number"] }

\* Most rows in the Component Mapping sheet of a workbook.
MaxRows == 3

\* The workbooks at mapping_excel_path: no file, a file pandas cannot read
\* as a workbook with a Component Mapping sheet, a sheet without the column,
\* or a sheet with the column.
Workbooks ==
    { [state |-> st, column |-> <<>>] :
          st \in {"missing", "unreadable", "nocolumn"} }
    \cup { [state |-> "column", column |-> c] :
               c \in SeqUpTo(CellUniverse, MaxRows) }

\* '_Lib' in s
HasMarker(cell) ==
    cell.core \in {"Common_Lib", "Order_Lib", "None of the above_Lib"}

\* 'none of the above' in s.lower()
IsSentinel(cell) == cell.core = "None of the above_Lib"

\* s.strip()
Strip(cell) == [cell EXCEPT !.padded = FALSE]

\* isinstance(s, str) and '_Lib' in s and 'none of the above' not in s.lower()
IsLibrary(cell) == cell.kind = "str" /\ HasMarker(cell) /\ ~IsSentinel(cell)

\* df[...].dropna().unique(): the cells that are not NaN, each value once, in
\* the order of first appearance.
RECURSIVE DropnaUnique(_, _)
DropnaUnique(column, seen) ==
    IF column = <<>> THEN <<>>
    ELSE IF Head(column).kind = "nan" \/ Head(column) \in seen
         THEN DropnaUnique(Tail(column), seen)
         ELSE <<Head(column)>>
              \o DropnaUnique(Tail(column), seen \cup {Head(column)})

\* The loop of _extract_ace_libraries_from_mapping: a stripped name is
\* appended when it is not in the list yet.
RECURSIVE AppendNew(_, _)
AppendNew(cells, ace_libraries) ==
    IF cells = <<>> THEN ace_libraries
    ELSE LET lib_name == Strip(Head(cells))
         IN AppendNew(Tail(cells),
                IF IsLibrary(Head(cells))
                   /\ ~\E i \in 1..Len(ace_libraries) :
                          ace_libraries[i] = lib_name
                THEN Append(ace_libraries, lib_name) ELSE ace_libraries)

Returned(libs) == [kind |-> "returned", libraries |-> libs]

Raised == [kind |-> "raised", libraries |-> <<>>]

NotCalled == [kind |-> "none", libraries |-> <<>>]

\* ACEModuleCreator._extract_ace_libraries_from_mapping
_extract_ace_libraries_from_mapping(wb) ==
    IF wb.state \in {"missing", "unreadable"} THEN Raised
    ELSE LET ace_libraries ==
                 IF wb.state = "column"
                 THEN AppendNew(DropnaUnique(wb.column, {}), <<>>)
                 ELSE <<>>
         IN IF ace_libraries = <<>> THEN Raised ELSE Returned(ace_libraries)

\* The list comprehension of _get_required_libraries.
RECURSIVE StrippedLibraries(_)
StrippedLibraries(cells) ==
    IF cells = <<>> THEN <<>>
    ELSE (IF IsLibrary(Head(cells)) THEN <<Strip(Head(cells))>> ELSE <<>>)
         \o StrippedLibraries(Tail(cells))

\* MigrationQualityReviewer._get_required_libraries
_get_required_libraries(wb) ==
    IF wb.state = "column"
    THEN Returned(StrippedLibraries(DropnaUnique(wb.column, {})))
    ELSE Returned(<<>>)

\* The module generator reads the workbook for the project file.
ExtractForProjectFile ==
    /\ creatorLibraries' = _extract_ace_libraries_from_mapping(mapping_excel)
    /\ UNCHANGED <<mapping_excel, reviewerLibraries,
                   dashVars, mfVars, mapVars, genVars, revVars, pmVars,
                   scanVars, btmVars, enhVars>>

\* The quality reviewer reads the workbook for the project review.
ExtractForProjectReview ==
    /\ reviewerLibraries' = _get_required_libraries(mapping_excel)
    /\ UNCHANGED <<mapping_excel, creatorLibraries,
                   dashVars, mfVars, mapVars, genVars, revVars, pmVars,
                   scanVars, btmVars, enhVars>>

LibStart ==
    /\ mapping_excel \in Workbooks
    /\ creatorLibraries = NotCalled
    /\ reviewerLibraries = NotCalled

LibNext == ExtractForProjectFile \/ ExtractForProjectReview

\* ------------------------------------------------------------------------
\* Test-suite generator (postman_collection_generator.py)
\* ------------------------------------------------------------------------

\* self.test_templates, as _initialize_test_templates builds it: the
\* templates of each category, in order.
test_templates ==
    << [category |-> "functional_tests", test_type |-> "happy_path",
        name |-> "Functional - Happy Path Processing",
        priority |-> 1,
        scenarios |-> <<"Valid business entity processing",
                        "Standard transformation scenarios",
                        "Database enrichment success paths",
                        "Normal routing and delivery">>],
       [category |-> "functional_tests", test_type |-> "business_variations",
        name |-> "Functional - Business Entity Variations",
        priority |-> 1,
        scenarios |-> <<"SHP (Shipment) entity processing",
                        "QBK (Booking) entity processing",
                        "BRK (Brokerage) entity processing",
                        "Document type variations">>],
       [category |-> "validation_tests", test_type |-> "schema_validation",
        name |-> "Validation - Schema and Data Validation",
        priority |-> 2,
        scenarios |-> <<"XML schema validation",
                        "Required field validation",
                        "Data type validation",
                        "Business rule validation">>],
       [category |-> "validation_tests", test_type |-> "boundary_tests",
        name |-> "Validation - Boundary Value Testing",
        priority |-> 2,
        scenarios |-> <<"Maximum length field testing",
                        "Minimum value testing",
                        "Special character handling",
                        "Unicode and encoding tests">>],
       [category |-> "error_handling_tests", test_type |-> "invalid_data",
        name |-> "Error Handling - Invalid Data Scenarios",
        priority |-> 1,
        scenarios |-> <<"Malformed XML messages",
                        "Missing required fields",
                        "Invalid data types",
                        "Business rule violations">>],
       [category |-> "error_handling_tests", test_type |-> "system_errors",
        name |-> "Error Handling - System Error Scenarios",
        priority |-> 1,
        scenarios |-> <<"Database connection failures",
                        "External service timeouts",
                        "Queue unavailability",
                        "Transformation failures">>],
       [category |-> "performance_tests", test_type |-> "load_testing",
        name |-> "Performance - Load Testing",
        priority |-> 3,
        scenarios |-> <<"Single message processing time",
                        "Concurrent message processing",
                        "Large message handling",
                        "Sustained load testing">>],
       [category |-> "performance_tests", test_type |-> "volume_testing",
        name |-> "Performance - Volume Testing",
        priority |-> 3,
        scenarios |-> <<"Large XML message processing",
                        "Bulk data transformation",
                        "High-volume database lookups",
                        "Memory usage optimization">>],
       [category |-> "integration_tests", test_type |-> "database_integration",
        name |-> "Integration - Database Connectivity",
        priority |-> 2,
        scenarios |-> <<"Database lookup operations",
                        "Data enrichment flows",
                        "Transaction management",
                        "Connection pooling">>],
       [category |-> "integration_tests", test_type |-> "external_services",
        name |-> "Integration - External Service Calls",
        priority |-> 2,
        scenarios |-> <<"HTTP/REST service calls",
                        "SOAP service integration",
                        "Authentication handling",
                        "Service timeout handling">>],
       [category |-> "security_tests", test_type |-> "authentication",
        name |-> "Security - Authentication Testing",
        priority |-> 2,
        scenarios |-> <<"Valid authentication tokens",
                        "Invalid/expired tokens",
                        "Authorization levels",
                        "Security header validation">>],
       [category |-> "security_tests", test_type |-> "data_security",
        name |-> "Security - Data Security Testing",
        priority |-> 2,
        scenarios |-> <<"Sensitive data handling",
                        "Data encryption/decryption",
                        "SQL injection prevention",
                        "Cross-site scripting prevention">>] >>

\* A text built with an f-string is the tuple of its parts.  The keywords the
\* scripts look for ('error', 'invalid', in the lower-cased text) lie inside
\* one part; these are the parts that hold one.
KeywordsOf(part) ==
    CASE part = "Error Handling - Invalid Data Scenarios" -> {"error", "invalid"}
      [] part = "Error Handling - System Error Scenarios" -> {"error"}
      [] part = "Invalid data types" -> {"invalid"}
      [] part = "Invalid/expired tokens" -> {"invalid"}
      [] OTHER -> {}

\* word in text.lower()
HasKeyword(text, word) == \E i \in 1..Len(text) : word \in KeywordsOf(text[i])

\* entity_patterns of _analyze_message_flows
entity_patterns == {"SHP", "QBK", "BRK", "DocumentMessage", "EntityReference"}

\* The endpoints an HTTP input node and an MQ input node give.
EndpointUniverse == {[type |-> "HTTP"], [type |-> "MQ"]}

\* Most business entities and most endpoints the artifacts expose.
MaxEntities == 5

MaxEndpoints == 3

\* business_entities holds each pattern at most once.
EntityLists ==
    {e \in SeqUpTo(entity_patterns, MaxEntities) :
        \A i, j \in 1..Len(e) : i # j => e[i] # e[j]}

NoFlowAnalysis == [primary_endpoints |-> <<>>, business_entities |-> <<>>]

\* _match_endpoints_to_scenario: endpoints[:1]
_match_endpoints_to_scenario(endpoints) == Take(endpoints, 1)

\* The scenario of one literal description of a template.
BaseScenario(template, scenario_desc, scenario_id, endpoints) ==
    [id |-> scenario_id,
     category |-> template.category,
     name |-> <<template.name, " - ", scenario_desc>>,
     description |-> <<"Test scenario: ", scenario_desc>>,
     priority |-> template.priority,
     endpoints |-> _match_endpoints_to_scenario(endpoints)]

\* The first loop of _generate_test_scenarios over the templates from
\* position i on, scenario_id being the next id.
RECURSIVE BaseScenarios(_, _, _)
BaseScenarios(i, scenario_id, endpoints) ==
    IF i > Len(test_templates) THEN <<>>
    ELSE LET template == test_templates[i]
             n == Len(template.scenarios)
         IN [j \in 1..n |->
                BaseScenario(template, template.scenarios[j],
                             scenario_id + j - 1, endpoints)]
            \o BaseScenarios(i + 1, scenario_id + n, endpoints)

\* A variant of FirstEndpoints that takes every endpoint.
EveryEndpoint(endpoints) == endpoints

\* primary_endpoints[:2]
FirstEndpoints(endpoints) == Take(endpoints, 2)

EntityScenario(entity, endpoint, scenario_id) ==
    [id |-> scenario_id,
     category |-> "entity_specific",
     name |-> <<"Entity Processing - ", entity, " via ", endpoint.type>>,
     description |-> <<"Test ", entity, " entity processing through ",
                       endpoint.type, " endpoint">>,
     priority |-> 1,
     endpoints |-> <<endpoint>>]

\* The second loop of _generate_test_scenarios.
EntityScenarios(entities, endpoints, scenario_id) ==
    LET first == FirstEndpoints(endpoints)
    IN Flatten([e \in 1..Len(entities) |->
                   [k \in 1..Len(first) |->
                       EntityScenario(entities[e], first[k],
                           scenario_id + (e - 1) * Len(first) + k - 1)]])

_generate_test_scenarios(analysis) ==
    LET base == BaseScenarios(1, 1, analysis.primary_endpoints)
    IN base \o EntityScenarios(analysis.business_entities,
                               analysis.primary_endpoints, Len(base) + 1)

\* The status codes a test script accepts.
ErrorCodes == {400, 422, 500}

SuccessCodes == {200, 201, 202}

\* _generate_test_script: the range asserted and whether the content check
\* is there.
_generate_test_script(scenario) ==
    [status_codes |->
         IF HasKeyword(scenario.description, "error")
            \/ HasKeyword(scenario.description, "invalid")
         THEN ErrorCodes ELSE SuccessCodes,
     content_check |-> ~HasKeyword(scenario.description, "error"),
     mq_validations |-> FALSE]

\* _generate_mq_test_script
_generate_mq_test_script(scenario) ==
    [_generate_test_script(scenario) EXCEPT !.mq_validations = TRUE]

\* _create_http_request_item: "event" holds a test and a prerequest script.
_create_http_request_item(scenario) ==
    [name |-> scenario.name,
     scenario |-> scenario.id,
     test |-> _generate_test_script(scenario),
     listen |-> <<"test", "prerequest">>]

\* _create_mq_simulation_request_item: "event" holds a test script.
_create_mq_simulation_request_item(scenario) ==
    [name |-> scenario.name \o <<" (MQ Simulation)">>,
     scenario |-> scenario.id,
     test |-> _generate_mq_test_script(scenario),
     listen |-> <<"test">>]

\* _create_request_item: a scenario without endpoint gets the default HTTP
\* endpoint.
_create_request_item(scenario) ==
    IF scenario.endpoints # <<>> /\ scenario.endpoints[1].type = "MQ"
    THEN _create_mq_simulation_request_item(scenario)
    ELSE _create_http_request_item(scenario)

RequestItems(scenarios) ==
    [i \in 1..Len(scenarios) |-> _create_request_item(scenarios[i])]

OfScenarioCategory(scenarios, category) ==
    SelectSeq(scenarios, LAMBDA sc : sc.category = category)

\* The categories in the order scenarios_by_category meets them.
RECURSIVE CategoriesMet(_, _)
CategoriesMet(scenarios, seen) ==
    IF scenarios = <<>> THEN <<>>
    ELSE IF Head(scenarios).category \in seen
         THEN CategoriesMet(Tail(scenarios), seen)
         ELSE <<Head(scenarios).category>>
              \o CategoriesMet(Tail(scenarios),
                               seen \cup {Head(scenarios).category})

\* _create_main_collection: one folder per category met.
_create_main_collection(scenarios) ==
    LET met == CategoriesMet(scenarios, {})
    IN [name |-> "Complete_TestSuite",
        folders |-> TRUE,
        item |-> [c \in 1..Len(met) |->
                     [name |-> met[c],
                      item |-> RequestItems(
                                   OfScenarioCategory(scenarios, met[c]))]]]

\* _create_category_collection
_create_category_collection(scenarios, category_name) ==
    [name |-> category_name, folders |-> FALSE,
     item |-> RequestItems(scenarios)]

\* collection_categories of _create_postman_collections
collection_categories ==
    <<"functional_tests", "validation_tests", "error_handling_tests",
      "performance_tests", "integration_tests", "security_tests">>

\* _create_postman_collections: the main collection, then one collection
\* for each of collection_categories that has a scenario.
_create_postman_collections(scenarios) ==
    <<_create_main_collection(scenarios)>>
    \o Flatten([c \in 1..Len(collection_categories) |->
          LET category_scenarios ==
                  OfScenarioCategory(scenarios, collection_categories[c])
          IN IF category_scenarios = <<>> THEN <<>>
             ELSE <<_create_category_collection(category_scenarios,
                                                collection_categories[c])>>])

\* generation_results as __init__ creates it; the three lists are kept by
\* their lengths.
NoGenerationResults ==
    [collections_created |-> 0, environments_created |-> 0,
     payload_samples_created |-> 0, documentation_files |-> 0]

NoFinalReport == [written |-> FALSE, automation_score |-> 0]

\* The environments of _create_environment_configurations.
environments == <<"Development", "QA_Testing", "Production">>

\* The payload lists of _generate_test_data besides the valid payloads.
invalid_scenarios ==
    <<"malformed_xml", "missing_required_fields", "invalid_data_types",
      "business_rule_violations">>

edge_case_types ==
    <<"maximum_length_fields", "special_characters", "unicode_data",
      "empty_optional_fields">>

size_categories == <<"small", "medium", "large", "extra_large">>

\* Entities that get a valid payload: business_entities[:5]
ValidPayloadLimit == 5

\* payload_count of _generate_test_data
_generate_test_data(analysis) ==
    Len(Take(analysis.business_entities, ValidPayloadLimit))
    + Len(invalid_scenarios) + Len(edge_case_types) + Len(size_categories)

\* doc_files of _create_documentation
doc_files ==
    <<"Setup_Guide.md", "Test_Execution_Guide.md", "Troubleshooting_Guide.md",
      "API_Reference.md">>

\* A score that awards a bonus only at the higher threshold.
FullBonusesOnly(results) ==
    (IF results.collections_created > 0 THEN 25 ELSE 0)
    + (IF results.environments_created >= 3 THEN 25 ELSE 0)
    + (IF results.payload_samples_created >= 20 THEN 25 ELSE 0)
    + (IF results.documentation_files >= 4 THEN 25 ELSE 0)

_calculate_automation_score(results) ==
    LET score ==
            (IF results.collections_created > 0 THEN 25 ELSE 0)
            + (IF results.environments_created >= 3 THEN 25
               ELSE IF results.environments_created >= 2 THEN 15 ELSE 0)
            + (IF results.payload_samples_created >= 20 THEN 25
               ELSE IF results.payload_samples_created >= 10 THEN 15 ELSE 0)
            + (IF results.documentation_files >= 4 THEN 25
               ELSE IF results.documentation_files >= 2 THEN 15 ELSE 0)
    IN IF score < 100 THEN score ELSE 100

\* Most entries of a recorded list and most payload samples recorded.
MaxListed == 4

MaxSamples == 21

\* Step 3 of generate_postman_collections, _analyze_message_flows: the
\* endpoints and entities the parsed artifacts expose.
AnalyzeMessageFlows ==
    /\ pmPc = "parsed"
    /\ \E entities \in EntityLists,
          endpoints \in SeqUpTo(EndpointUniverse, MaxEndpoints) :
          flow_analysis' = [primary_endpoints |-> endpoints,
                            business_entities |-> entities]
    /\ pmPc' = "analyzed"
    /\ UNCHANGED <<test_scenarios, collections, generation_results,
                   final_report,
                   dashVars, mfVars, mapVars, genVars, revVars, libVars,
                   scanVars, btmVars, enhVars>>

\* Step 4, _generate_test_scenarios.
GenerateTestScenarios ==
    /\ pmPc = "analyzed"
    /\ test_scenarios' = _generate_test_scenarios(flow_analysis)
    /\ pmPc' = "scenarios"
    /\ UNCHANGED <<flow_analysis, collections, generation_results,
                   final_report,
                   dashVars, mfVars, mapVars, genVars, revVars, libVars,
                   scanVars, btmVars, enhVars>>

\* Step 5, _create_postman_collections.
CreatePostmanCollections ==
    /\ pmPc = "scenarios"
    /\ collections' = _create_postman_collections(test_scenarios)
    /\ generation_results' =
           [generation_results EXCEPT
               !.collections_created =
                   @ + Len(_create_postman_collections(test_scenarios))]
    /\ pmPc' = "collections"
    /\ UNCHANGED <<flow_analysis, test_scenarios, final_report,
                   dashVars, mfVars, mapVars, genVars, revVars, libVars,
                   scanVars, btmVars, enhVars>>

\* Step 6, _create_environment_configurations: one file per environment.
CreateEnvironmentConfigurations ==
    /\ pmPc = "collections"
    /\ generation_results' =
           [generation_results EXCEPT
               !.environments_created = @ + Len(environments)]
    /\ pmPc' = "environments"
    /\ UNCHANGED <<flow_analysis, test_scenarios, collections, final_report,
                   dashVars, mfVars, mapVars, genVars, revVars, libVars,
                   scanVars, btmVars, enhVars>>

\* Step 7, _generate_test_data.
GenerateTestData ==
    /\ pmPc = "environments"
    /\ generation_results' =
           [generation_results EXCEPT
               !.payload_samples_created = _generate_test_data(flow_analysis)]
    /\ pmPc' = "test_data"
    /\ UNCHANGED <<flow_analysis, test_scenarios, collections, final_report,
                   dashVars, mfVars, mapVars, genVars, revVars, libVars,
                   scanVars, btmVars, enhVars>>

\* Step 8, _create_documentation.
CreateDocumentation ==
    /\ pmPc = "test_data"
    /\ generation_results' =
           [generation_results EXCEPT !.documentation_files = Len(doc_files)]
    /\ pmPc' = "documentation"
    /\ UNCHANGED <<flow_analysis, test_scenarios, collections, final_report,
                   dashVars, mfVars, mapVars, genVars, revVars, libVars,
                   scanVars, btmVars, enhVars>>

\* Step 9, _generate_final_report: the automation readiness it holds.
GenerateFinalReport ==
    /\ pmPc = "documentation"
    /\ final_report' =
           [written |-> TRUE,
            automation_score |-> _calculate_automation_score(generation_results)]
    /\ pmPc' = "done"
    /\ UNCHANGED <<flow_analysis, test_scenarios, collections,
                   generation_results,
                   dashVars, mfVars, mapVars, genVars, revVars, libVars,
                   scanVars, btmVars, enhVars>>

PmStart ==
    /\ pmPc = "parsed"
    /\ flow_analysis = NoFlowAnalysis
    /\ test_scenarios = <<>>
    /\ collections = <<>>
    /\ generation_results = NoGenerationResults
    /\ final_report = NoFinalReport

PmNext ==
    \/ AnalyzeMessageFlows \/ GenerateTestScenarios
    \/ CreatePostmanCollections \/ CreateEnvironmentConfigurations
    \/ GenerateTestData \/ CreateDocumentation \/ GenerateFinalReport

\* The readiness computation alone, over any recorded counts.
ScoreStart ==
    /\ pmPc = "documentation"
    /\ flow_analysis = NoFlowAnalysis
    /\ test_scenarios = <<>>
    /\ collections = <<>>
    /\ generation_results \in
           [collections_created : 0..MaxListed,
            environments_created : 0..MaxListed,
            payload_samples_created : 0..MaxSamples,
            documentation_files : 0..MaxListed]
    /\ final_report = NoFinalReport

ScoreNext == GenerateFinalReport

\* ------------------------------------------------------------------------
\* Mapping scanner run (main.py run_program_1, biztalk_ace_mapper.py)
\* ------------------------------------------------------------------------

\* What the two root paths hold and whether GROQ_API_KEY is set. A root
\* that does not exist holds nothing. The trees do not change between the
\* runs, and rglob lists an unchanged tree in the same order each time.
ScanInputs ==
    {in \in [llm : BOOLEAN, bizExists : BOOLEAN, biz : BizTrees,
             aceExists : BOOLEAN, ace : AceTrees] :
        /\ ~in.bizExists => in.biz = {}
        /\ ~in.aceExists => in.ace = <<>>}

NotRun == [scan_ace |-> "notcalled", status |-> "pending", rows |-> <<>>]

\* intelligent_mappings after create_mappings over the two lists; o gives
\* the outcome of the model call for each component that gets one.
MappingsOver(comps, libs, enabled, o) ==
    IF comps = <<>> \/ libs = <<>> THEN <<>>
    ELSE [i \in 1..Len(comps) |->
             _create_smart_mapping_fast(comps[i], libs, enabled,
                 IF i \in DOMAIN o THEN o[i] ELSE NoJson("raise"))]

\* The Component Mapping rows generate_excel writes.
SheetOf(mappings) ==
    IF ComponentMappingData(mappings) = <<>>
    THEN <<NoComponentsRow>>
    ELSE ComponentMappingData(mappings)

\* The outcomes of one run of the mapping scanner on a fresh mapper:
\* scan_biztalk raises on a root that does not exist and the run ends in
\* status 'error'; scan_ace_libraries logs a root that does not exist and
\* returns, leaving ace_components empty; then create_mappings and
\* generate_excel run and the status becomes 'success'.
RunOutcomes(in) ==
    IF ~in.bizExists
    THEN {[scan_ace |-> "notcalled", status |-> "error", rows |-> <<>>]}
    ELSE LET comps == ScanOrder(in.biz)
             libs == IF in.aceExists THEN in.ace ELSE <<>>
             refined == {i \in 1..Len(comps) :
                            Refined(comps[i], libs, in.llm)}
         IN {[scan_ace |-> "returned", status |-> "success",
              rows |-> SheetOf(MappingsOver(comps, libs, in.llm, o))] :
             o \in [refined -> LlmOutcomes]}

RunMappingScanner ==
    /\ scanPc = "first"
    /\ \E r \in RunOutcomes(scanInput) : firstRun' = r
    /\ scanPc' = "second"
    /\ UNCHANGED <<scanInput, secondRun,
                   dashVars, mfVars, mapVars, genVars, revVars, libVars,
                   pmVars, btmVars, enhVars>>

RunMappingScannerAgain ==
    /\ scanPc = "second"
    /\ \E r \in RunOutcomes(scanInput) : secondRun' = r
    /\ scanPc' = "done"
    /\ UNCHANGED <<scanInput, firstRun,
                   dashVars, mfVars, mapVars, genVars, revVars, libVars,
                   pmVars, btmVars, enhVars>>

ScanStart ==
    /\ scanInput \in ScanInputs
    /\ firstRun = NotRun
    /\ secondRun = NotRun
    /\ scanPc = "first"

ScanNext == RunMappingScanner \/ RunMappingScannerAgain

\* ------------------------------------------------------------------------
\* Map analyzer (ace_module_creator.py _analyze_map)
\* ------------------------------------------------------------------------

\* Most functoid elements in one map.
MaxFunctoids == 11

\* A map is medium above 3 matches and complex above 10.
MediumAbove == 3

ComplexAbove == 10

\* What a .btm file holds, as far as the two functoid patterns see it: its
\* <Functoid ...> elements, how many of them carry a FunctoidName="..."
\* attribute, and whether they sit inside a <Functoids> element.
BtmFiles ==
    {b \in [readable : BOOLEAN, functoids : 0..MaxFunctoids,
            named : 0..MaxFunctoids, container : BOOLEAN] :
        /\ b.named <= b.functoids
        /\ ~b.readable => (b.functoids = 0 /\ ~b.container)}

\* len(map_info['functoids']) after the loop over functoid_patterns:
\* r'<Functoid' matches every element and the opening <Functoids> tag,
\* r'FunctoidName="([^"]+)"' matches every such attribute.
FunctoidMatches(b) ==
    b.functoids + (IF b.container THEN 1 ELSE 0) + b.named

NotAnalyzed == [analyzed |-> FALSE, complexity |-> "none"]

_analyze_map(b) ==
    IF ~b.readable THEN [analyzed |-> TRUE, complexity |-> "unknown"]
    ELSE [analyzed |-> TRUE,
          complexity |->
              IF FunctoidMatches(b) > ComplexAbove THEN "complex"
              ELSE IF FunctoidMatches(b) > MediumAbove THEN "medium"
              ELSE "simple"]

AnalyzeMap ==
    /\ ~map_info.analyzed
    /\ map_info' = _analyze_map(btm)
    /\ UNCHANGED <<btm, dashVars, mfVars, mapVars, genVars, revVars, libVars,
                   pmVars, scanVars, enhVars>>

BtmStart ==
    /\ btm \in BtmFiles
    /\ map_info = NotAnalyzed

BtmNext == AnalyzeMap

\* ------------------------------------------------------------------------
\* Module generator run (ace_module_creator.py enhance)
\* ------------------------------------------------------------------------

\* biztalk_root_dir is None, names nothing on disk, or names a directory;
\* the workbook is the one at mapping_excel_path.
EnhanceInputs == [root : {"none", "missing", "present"}, workbook : Workbooks]

Running == [status |-> "running", file_failed |-> FALSE]

\* The run ends with the exception that reached enhance.
Raise(result) == [result EXCEPT !.status = "raised"]

\* Phase 1: a root that is None or not on disk is reported and the run goes
\* on with no discovered files; a failure on a file of an existing root is
\* caught inside scan_biztalk_root_folder.
ScanRoot ==
    /\ enhance_pc = "scan"
    /\ \E failed \in IF enhance_input.root = "present"
                     THEN BOOLEAN ELSE {FALSE} :
          enhance_result' = [enhance_result EXCEPT !.file_failed = failed]
    /\ enhance_pc' = "analyze"
    /\ UNCHANGED <<enhance_input, dashVars, mfVars, mapVars, genVars,
                   revVars, libVars, pmVars, scanVars, btmVars>>

\* Phase 2, analyze_biztalk_components: each analyzer catches its own
\* failure; without a .btproj the project name is Path(biztalk_root).name,
\* which raises for None.
AnalyzeComponents ==
    /\ enhance_pc = "analyze"
    /\ IF enhance_input.root = "none"
       THEN /\ enhance_result' = Raise(enhance_result)
            /\ enhance_pc' = "done"
       ELSE /\ \E failed \in IF enhance_input.root = "present"
                             THEN BOOLEAN ELSE {FALSE} :
                  enhance_result' =
                      [enhance_result EXCEPT !.file_failed = @ \/ failed]
            /\ enhance_pc' = "generate"
    /\ UNCHANGED <<enhance_input, dashVars, mfVars, mapVars, genVars,
                   revVars, libVars, pmVars, scanVars, btmVars>>

\* Phases 3 to 5: reading the message flow, the business context and every
\* generation call catch their own failures (a fallback body is written).
GenerateFiles ==
    /\ enhance_pc = "generate"
    /\ \E failed \in BOOLEAN :
          enhance_result' =
              [enhance_result EXCEPT !.file_failed = @ \/ failed]
    /\ enhance_pc' = "project"
    /\ UNCHANGED <<enhance_input, dashVars, mfVars, mapVars, genVars,
                   revVars, libVars, pmVars, scanVars, btmVars>>

\* Phase 6, _generate_project_file: what the extraction raises reaches
\* enhance.
GenerateProjectFile ==
    /\ enhance_pc = "project"
    /\ IF _extract_ace_libraries_from_mapping(enhance_input.workbook) = Raised
       THEN /\ enhance_result' = Raise(enhance_result)
            /\ enhance_pc' = "done"
       ELSE /\ enhance_pc' = "report"
            /\ UNCHANGED enhance_result
    /\ UNCHANGED <<enhance_input, dashVars, mfVars, mapVars, genVars,
                   revVars, libVars, pmVars, scanVars, btmVars>>

\* Phases 7 and 8, the two reports, and the return of output_dir.
SaveReports ==
    /\ enhance_pc = "report"
    /\ enhance_result' = [enhance_result EXCEPT !.status = "returned"]
    /\ enhance_pc' = "done"
    /\ UNCHANGED <<enhance_input, dashVars, mfVars, mapVars, genVars,
                   revVars, libVars, pmVars, scanVars, btmVars>>

EnhStart ==
    /\ enhance_input \in EnhanceInputs
    /\ enhance_pc = "scan"
    /\ enhance_result = Running

EnhNext ==
    \/ ScanRoot \/ AnalyzeComponents \/ GenerateFiles
    \/ GenerateProjectFile \/ SaveReports

\* ------------------------------------------------------------------------
\* Properties
\* ------------------------------------------------------------------------

\* C1: after a run has published (into a folder other than the source),
\* every name discovered in the ESQL, XSLT and project categories is the
\* name of a file of the output folder.
EveryDiscoveredNamePublished ==
    (revPc = "done" /\ ~outputIsSource) =>
        \A f \in ace_modules.esql_files \cup ace_modules.xsl_files
                  \cup ace_modules.project_files : f \in DOMAIN outFolder

\* The number of planned ESQL, enrichment and XSLT requirements.
PlannedCount(analysis) ==
    Len(Work(analysis, "esql")) + Len(Work(analysis, "enrichment"))
    + Len(Work(analysis, "xsl")) + Len(Work(analysis, "mapxsl"))

\* C2: when generation is over, the output directory holds exactly as many
\* files as requirements were planned.
EveryRequirementYieldsFile ==
    genPc.phase = "done" => Cardinality(disk) = PlannedCount(biztalk_analysis)

\* C3: a run button of stage 2..5 is on the page only while the stage
\* before it has status success, and the button of stage 1 is on the page
\* whatever the statuses are, as soon as its own inputs are valid.
RunOnlyAfterPredecessor ==
    /\ \A n \in buttons : n = 1 \/ progress[n - 1].status = "success"
    /\ (1 \in buttons <=> 1 \in inputsValid)

\* C3, its case: stage 1 has just been run again and failed after stage 2
\* had succeeded; the button of stage 2 is gone though its inputs are valid.
ButtonWithdrawn ==
    /\ event.stage = 1
    /\ progress[1].status = "error"
    /\ progress[2].status = "success"
    /\ 2 \in inputsValid
    /\ 2 \notin buttons
    /\ 1 \in buttons

\* C4: after a run in which the stage's component raised or reported
\* failure, the status of that stage is "error".
FailureLeavesError ==
    event.outcome \in {"raise", "nosuccess"} =>
        progress[event.stage].status = "error"

\* C5: a step that runs stage n leaves the entry of every other stage, its
\* status, its output and its other keys, as it was.
RunTouchesOwnEntryOnly ==
    [][event'.stage \in Stages =>
          \A m \in Stages \ {event'.stage} : progress'[m] = progress[m]]_vars

\* C5, its case: stage 3 has just run to success while stage 2 held a
\* success entry and stage 4 an error entry.
RunAmongOtherEntries ==
    /\ event = [stage |-> 3, outcome |-> "ok"]
    /\ progress[2].status = "success"
    /\ progress[4].status = "error"
    /\ progress[4].output = "path"

HasError(errors, e) == \E i \in 1..Len(errors) : errors[i] = e

\* C6: generate_messageflow returns success only when the written file is
\* well-formed and contains both literals; otherwise it raises, and the
\* errors it carries name the parse failure and each missing literal.
ValidationGate ==
    mfPc = "done" =>
        /\ mfResult.kind \in {"success", "error"}
        /\ mfResult.kind = "success" =>
               /\ mfFile.exists
               /\ WellFormed(mfFile.text)
               /\ Contains(mfFile.text, "po")
               /\ Contains(mfFile.text, "sb")
        /\ (mfResult.kind = "error" /\ ~mfResponse.raised) =>
               /\ ~WellFormed(mfFile.text) \/ ~Contains(mfFile.text, "po")
                     \/ ~Contains(mfFile.text, "sb")
               /\ ~WellFormed(mfFile.text) =>
                      HasError(mfResult.errors, "XML Parse Error")
               /\ ~Contains(mfFile.text, "po") =>
                      HasError(mfResult.errors, "Missing: po")
               /\ ~Contains(mfFile.text, "sb") =>
                      HasError(mfResult.errors, "Missing: sb")

\* C6, its case: a well-formed file without either literal was written and
\* the call raised.
BothLiteralsMissing ==
    /\ mfPc = "done"
    /\ mfResult.kind = "error"
    /\ mfFile.exists
    /\ WellFormed(mfFile.text)
    /\ ~Contains(mfFile.text, "po")
    /\ ~Contains(mfFile.text, "sb")

IsPlaceholder(row) == row.required_ace_library = "Manual_Review_Required"

\* C7: every row of the sheet just written, placeholders aside, names a
\* component of biztalk_components and a library of ace_components.
RowsNameScannedItems ==
    \A i \in 1..Len(sheet) :
        IsPlaceholder(sheet[i])
        \/ /\ sheet[i].biztalk_component \in Names(biztalk_components)
           /\ sheet[i].required_ace_library \in Names(ace_components)

\* C8: every row of the sheet just written has a mapping_confidence
\* between 0 and 1 (0 and 100 hundredths).
ConfidenceWithinUnit ==
    \A i \in 1..Len(sheet) :
        sheet[i].mapping_confidence >= 0 /\ sheet[i].mapping_confidence <= 100

\* C9: every ESQL review result holds a compliance score from 1 to 10.
ComplianceScoreInRange ==
    \A f \in DOMAIN compliance_results.esql_reviews :
        compliance_results.esql_reviews[f].compliance_score \in 1..10

ExpectedNames ==
    LET reviews == compliance_results.esql_reviews
        custom == customization_results.customized_modules
        updates == compliance_results.project_updates
        copyable == ~outputIsSource
    IN {f \in ace_modules.esql_files :
            \/ copyable
            \/ reviews[f].cleaned_code # ""
            \/ f \in DOMAIN custom /\ custom[f].customized_code # ""}
       \cup {f \in ace_modules.xsl_files :
                f \in DOMAIN custom /\ custom[f].customized_code # ""}
       \cup (IF compliance_results.xsl_consolidation.consolidated_xsl # ""
             THEN {ConsolidatedName}
             ELSE IF copyable THEN ace_modules.xsl_files ELSE {})
       \cup {f \in ace_modules.project_files :
                copyable \/ updates[f].updated_project_content # ""}
       \cup (IF copyable THEN ace_modules.msgflow_files ELSE {})
       \cup EnrichmentFiles

SameExtraction ==
    (creatorLibraries # NotCalled /\ reviewerLibraries # NotCalled) =>
        creatorLibraries = reviewerLibraries

\* C12: after a run has published, every ESQL or XSLT file for which the
\* customization call returned a non-empty body is in the output folder with
\* that body, and a file that is there as the original had no non-empty
\* body returned for it.
CustomizedBodyPublished ==
    revPc = "done" =>
        LET custom == customization_results.customized_modules
            reviews == compliance_results.esql_reviews
        IN /\ \A f \in DOMAIN custom :
                  custom[f].customized_code # "" =>
                      /\ f \in DOMAIN OutputFolder
                      /\ OutputFolder[f] = custom[f].customized_code
           /\ \A f \in ace_modules.esql_files \cup ace_modules.xsl_files :
                  (f \in DOMAIN OutputFolder /\ OutputFolder[f] = "original")
                  => /\ f \in DOMAIN custom => custom[f].customized_code = ""
                     /\ f \in DOMAIN reviews =>
                            reviews[f].cleaned_code \in {"", "original"}

\* C13: after a run has published (into a folder other than the source),
\* every discovered message flow and every discovered file of no reviewed
\* category is in the output folder with the content of the source file.
MsgflowAndOthersCopied ==
    (revPc = "done" /\ ~outputIsSource) =>
        \A f \in ace_modules.msgflow_files \cup ace_modules.other_files :
            f \in DOMAIN outFolder /\ outFolder[f] = srcFolder[f]

\* The literal descriptions of the catalog, in order.
CatalogDescriptions ==
    Flatten([i \in 1..Len(test_templates) |-> test_templates[i].scenarios])

\* min(2, number of endpoints)
EndpointsUsed == IF Len(flow_analysis.primary_endpoints) < 2
                 THEN Len(flow_analysis.primary_endpoints) ELSE 2

CatalogCategories ==
    {test_templates[i].category : i \in 1..Len(test_templates)}

CatalogPriorities ==
    {test_templates[i].priority : i \in 1..Len(test_templates)}

\* C15: every generated scenario has one of the six categories of the
\* catalog and a priority of the catalog, which lies in 1..3.
ScenarioCategoryFromCatalog ==
    /\ Cardinality(CatalogCategories) = 6
    /\ CatalogPriorities \subseteq 1..3
    /\ \A k \in 1..Len(test_scenarios) :
           /\ test_scenarios[k].category \in CatalogCategories
           /\ test_scenarios[k].priority \in CatalogPriorities

\* The request items of every collection written.
AllRequestItems ==
    UNION {IF collections[c].folders
           THEN UNION {{collections[c].item[f].item[i] :
                           i \in 1..Len(collections[c].item[f].item)} :
                       f \in 1..Len(collections[c].item)}
           ELSE {collections[c].item[i] : i \in 1..Len(collections[c].item)} :
           c \in 1..Len(collections)}

\* C16: every request item of every collection has a pre-request script.
EveryItemHasPrerequest ==
    \A item \in AllRequestItems :
        \E e \in 1..Len(item.listen) : item.listen[e] = "prerequest"

\* The scenario's name denotes an error case.
NameDenotesError(scenario) ==
    HasKeyword(scenario.name, "error") \/ HasKeyword(scenario.name, "invalid")

\* C17: the test script of every generated scenario asserts the error range
\* exactly when the name of the scenario denotes an error case, and the
\* success range otherwise.
StatusRangeFollowsName ==
    \A k \in 1..Len(test_scenarios) :
        _generate_test_script(test_scenarios[k]).status_codes
            = IF NameDenotesError(test_scenarios[k])
              THEN ErrorCodes ELSE SuccessCodes

NoCandidateRowAtLowConfidence ==
    sheet # <<>> =>
        \A m \in 1..Len(intelligent_mappings) :
            intelligent_mappings[m].ace_matches = <<>> =>
                LET rows == {k \in 1..Len(sheet) :
                                sheet[k].biztalk_component
                                    = intelligent_mappings[m].biztalk_component}
                IN /\ Cardinality(rows) = 1
                   /\ \A k \in rows :
                         /\ sheet[k].required_ace_library
                                = "Manual_Review_Required"
                         /\ sheet[k].mapping_confidence = NoMatchConfidence

\* C20: a run whose ACE library root does not exist has its call of
\* scan_ace_libraries fail, and the failure ends the run.
MissingAceRootFailsScan ==
    \A run \in {firstRun, secondRun} :
        (~scanInput.aceExists /\ run.scan_ace # "notcalled") =>
            (run.scan_ace = "raised" /\ run.status = "error")

\* C24: a step that serves the reset button leaves every one of the five
\* stages with status pending and no output, whatever the entries were.
ResetClearsEveryStage ==
    [][event'.outcome = "reset" =>
          \A n \in Stages : /\ progress'[n].status = "pending"
                            /\ progress'[n].output = "None"]_vars

\* C24, its case: the reset button has just been served.
ResetServed ==
    /\ event.outcome = "reset"
    /\ progress = InitialProgress
    /\ inputsValid = InputStages

\* C25: whenever all five stages have status success, the script run that
\* rendered the page rendered the results view.
ResultsViewOnceAllSucceed ==
    (\A n \in Stages : progress[n].status = "success") =>
        \E v \in 1..Len(ViewsOfMain) : ViewsOfMain[v] = "render_results_dashboard"

\* C27: a run button of stage n is on the page only while every stage
\* before n has status success.
RunOnlyAfterEveryEarlierStage ==
    \A n \in buttons : \A m \in 1..(n - 1) : progress[m].status = "success"

\* C28: after the run handler of a stage has returned, the status of that
\* stage is success or error.
HandlerLeavesSuccessOrError ==
    event.stage \in Stages =>
        progress[event.stage].status \in {"success", "error"}

\* C23: the report of a completed run holds, under the name of each file
\* the run reviewed or customized, the result of that review or
\* customization.
ReportHoldsEveryResult ==
    (revPc = "done" /\ review_report.written) =>
        /\ \A f \in DOMAIN compliance_results.esql_reviews :
              /\ f \in DOMAIN review_report.content.ace_compliance_review
              /\ review_report.content.ace_compliance_review[f]
                     = compliance_results.esql_reviews[f]
        /\ \A f \in DOMAIN customization_results.customized_modules :
              /\ f \in DOMAIN review_report.content.account_customizations
              /\ review_report.content.account_customizations[f]
                     = customization_results.customized_modules[f]

\* C29: no step of a run removes a file of the source folder or changes
\* its content.
SourceFolderUntouched ==
    [][\A f \in DOMAIN srcFolder :
          f \in DOMAIN srcFolder' /\ srcFolder'[f] = srcFolder[f]]_vars

\* C21: a finished run of the module generator has failed exactly when
\* the BizTalk root is missing or the mapping workbook cannot be read or
\* yields no library; the failure of an individual file plays no part.
RunFailsOnlyOnRootOrWorkbook ==
    enhance_pc = "done" =>
        (enhance_result.status = "raised"
            <=> \/ enhance_input.root # "present"
                \/ _extract_ace_libraries_from_mapping(enhance_input.workbook)
                       = Raised)

\* C22: a readable map with exactly 3 functoids is classified simple, one
\* with exactly 4 or exactly 10 medium, one with exactly 11 complex.
FunctoidThresholds ==
    (map_info.analyzed /\ btm.readable) =>
        /\ btm.functoids = 3 => map_info.complexity = "simple"
        /\ btm.functoids \in {4, 10} => map_info.complexity = "medium"
        /\ btm.functoids = 11 => map_info.complexity = "complex"

\* C26: with 1 collection, 2 environments, 15 payload samples and 2
\* documentation files recorded, the automation score of the report is 70.
ScoreOfPartialResults ==
    (final_report.written
     /\ generation_results = [collections_created |-> 1,
                              environments_created |-> 2,
                              payload_samples_created |-> 15,
                              documentation_files |-> 2])
        => final_report.automation_score = 70

\* C26, its case: the report has been written over these counts.
PartialResultsScored ==
    /\ final_report.written
    /\ generation_results.collections_created = 1
    /\ generation_results.environments_created = 2
    /\ generation_results.payload_samples_created = 15
    /\ generation_results.documentation_files = 2

\* C30: a complete run over artifacts that expose every entity pattern
\* records at least 20 payload samples and scores 100.
RichestRunScoresFull ==
    (pmPc = "done"
     /\ Len(flow_analysis.business_entities) = Cardinality(entity_patterns))
        => /\ generation_results.payload_samples_created >= 20
           /\ final_report.automation_score = 100

\* ------------------------------------------------------------------------
\* Specifications
\* ------------------------------------------------------------------------
DashIdle == DashStart

MfIdle == MfStart

MapIdle == MapStart /\ llm_enabled = FALSE

GenIdle ==
    /\ biztalk_analysis = <<>>
    /\ genPc = [phase |-> "done", i |-> 0]
    /\ disk = {}
    /\ generated_files = <<>>
    /\ unusable = 0

RevIdle ==
    /\ outputIsSource = FALSE
    /\ account_requirements = FALSE
    /\ srcFolder = EmptyFolder
    /\ outFolder = EmptyFolder
    /\ revPc = "idle"
    /\ ace_modules = NoModules
    /\ compliance_results = NoCompliance
    /\ customization_results = NoCustomization
    /\ written = {}
    /\ rerun = FALSE
    /\ prevNames = {}
    /\ review_report = NoReport

LibIdle ==
    /\ mapping_excel = [state |-> "missing", column |-> <<>>]
    /\ creatorLibraries = NotCalled
    /\ reviewerLibraries = NotCalled

PmIdle == PmStart

BtmIdle ==
    /\ btm = [readable |-> FALSE, functoids |-> 0, named |-> 0,
              container |-> FALSE]
    /\ map_info = NotAnalyzed

EnhIdle ==
    /\ enhance_input = [root |-> "none",
                        workbook |-> [state |-> "missing", column |-> <<>>]]
    /\ enhance_pc = "scan"
    /\ enhance_result = Running

ScanIdle ==
    /\ scanInput = [llm |-> FALSE, bizExists |-> FALSE, biz |-> {},
                    aceExists |-> FALSE, ace |-> <<>>]
    /\ firstRun = NotRun
    /\ secondRun = NotRun
    /\ scanPc = "first"

\* The dashboard as a session starts it; the other components untouched.
DashInit == DashStart /\ MfIdle /\ MapIdle /\ GenIdle /\ RevIdle
            /\ LibIdle /\ PmIdle /\ ScanIdle /\ BtmIdle /\ EnhIdle

SpecDash == DashInit /\ [][DashNext]_vars

\* One call of generate_messageflow.
FlowInit == DashIdle /\ MfStart /\ MapIdle /\ GenIdle /\ RevIdle
            /\ LibIdle /\ PmIdle /\ ScanIdle /\ BtmIdle /\ EnhIdle

SpecFlow == FlowInit /\ [][MfNext]_vars

\* One mapper object, with or without a language model.
MapInit == DashIdle /\ MfIdle /\ MapStart /\ GenIdle /\ RevIdle
           /\ LibIdle /\ PmIdle /\ ScanIdle /\ BtmIdle /\ EnhIdle

SpecMap == MapInit /\ [][MapNext]_vars

\* One generation run over an analysed BizTalk tree.
GenInit == DashIdle /\ MfIdle /\ MapIdle /\ GenStart /\ RevIdle
           /\ LibIdle /\ PmIdle /\ ScanIdle /\ BtmIdle /\ EnhIdle

SpecGen == GenInit /\ [][GenNext]_vars

\* Runs of the quality reviewer over one source folder.
ReviewInit == DashIdle /\ MfIdle /\ MapIdle /\ GenIdle /\ RevStart
              /\ LibIdle /\ PmIdle /\ ScanIdle /\ BtmIdle /\ EnhIdle

SpecReview == ReviewInit /\ [][RevNext]_vars

\* The two extractions over one workbook.
LibInit == DashIdle /\ MfIdle /\ MapIdle /\ GenIdle /\ RevIdle
           /\ LibStart /\ PmIdle /\ ScanIdle /\ BtmIdle /\ EnhIdle

SpecLib == LibInit /\ [][LibNext]_vars

\* One run of the test-suite generator.
PmInit == DashIdle /\ MfIdle /\ MapIdle /\ GenIdle /\ RevIdle
          /\ LibIdle /\ PmStart /\ ScanIdle /\ BtmIdle /\ EnhIdle

SpecPostman == PmInit /\ [][PmNext]_vars

\* One call of the map analyzer.
BtmInit == DashIdle /\ MfIdle /\ MapIdle /\ GenIdle /\ RevIdle
           /\ LibIdle /\ PmIdle /\ ScanIdle /\ BtmStart /\ EnhIdle

SpecAnalyzeMap == BtmInit /\ [][BtmNext]_vars

\* One run of the module generator.
EnhInit == DashIdle /\ MfIdle /\ MapIdle /\ GenIdle /\ RevIdle
           /\ LibIdle /\ PmIdle /\ ScanIdle /\ BtmIdle /\ EnhStart

SpecEnhance == EnhInit /\ [][EnhNext]_vars

\* The readiness computation over any recorded counts.
ScoreInit == DashIdle /\ MfIdle /\ MapIdle /\ GenIdle /\ RevIdle
             /\ LibIdle /\ ScoreStart /\ ScanIdle /\ BtmIdle /\ EnhIdle

SpecScore == ScoreInit /\ [][ScoreNext]_vars

\* Two runs of the mapping scanner over the same two root paths.
ScanInit == DashIdle /\ MfIdle /\ MapIdle /\ GenIdle /\ RevIdle
            /\ LibIdle /\ PmIdle /\ ScanStart /\ BtmIdle /\ EnhIdle

SpecScan == ScanInit /\ [][ScanNext]_vars
====
